---- MODULE Spec2Model ----
(***************************************************************************)
(* State-machine model of the shell-session manager of jeditr              *)
(* (src-tauri/src/terminal.rs): the SESSIONS registry, the three commands  *)
(* start_shell / send_input / close_shell, one output pump thread per      *)
(* spawned session, and the child processes as the environment.            *)
(*                                                                         *)
(* The commands are async fns run concurrently by the runtime, so every    *)
(* command is cut into steps at its accesses to shared state (the          *)
(* registry, the child mutex, the stdin mutex, the pipes).                 *)
(***************************************************************************)
EXTENDS Integers, Sequences, FiniteSets, TLC

\* ------------------------------------------------------------ bounds
\* Command invocations in one behaviour.
MaxCalls == 2
\* Bytes the children write to their standard output, all together.
MaxOut == 1
\* The same, in the runs that follow one session's output (SpecPump).
PumpOut == 4
\* Bytes the stdin pipe of a child holds before a write to it blocks (the
\* pipe buffer of the operating system, scaled down).
StdinCap == 1
\* The same for the stderr pipe.
StderrCap == 1

\* ------------------------------------------------------------ values
Ids == {"a", "b"}
NoId == "-"
Calls == 1..MaxCalls
\* Every child is spawned by one start_shell invocation.
Pids == 1..MaxCalls
NoPid == 0
LF == "LF"
CR == "CR"
Bytes == {"x", LF}
PumpBytes == {"x", CR, LF}
\* The texts of send_input, as byte strings.
Inputs == {<<"l", "s">>}
InputTexts == {<<"l", "s">>, <<"p", "w">>}
NoInput == <<>>
ExitCodes == {0, 1}

\* The environment of the application: the platform it was built for and
\* the variables SHELL and ComSpec, each unset ({}) or set to a string
\* ({value}); strings are sequences of characters.
Platforms == {"windows", "other"}
ShValue == <<"z", "s", "h">>
ComSpecValues ==
    { <<"C", "M", "D">>,
      <<"p", "o", "w", "e", "r", "s", "h", "e", "l", "l">>,
      <<"p", "w", "s", "h">>,
      <<"c", "m", "d", "\\", "p", "w", "s", "h">>,
      <<"s", "h">> }
Envs ==
    [os : Platforms,
     SHELL : {{}, {ShValue}},
     ComSpec : {{}} \cup {{v} : v \in ComSpecValues}]
\* The environment of the runs that do not look at the shell command.
HostEnv == [os |-> "other", SHELL |-> {ShValue}, ComSpec |-> {}]
NoEnv == [os |-> "none", SHELL |-> {}, ComSpec |-> {}]
BinBash == <<"/", "b", "i", "n", "/", "b", "a", "s", "h">>
PowershellExe ==
    <<"p", "o", "w", "e", "r", "s", "h", "e", "l", "l", ".", "e", "x", "e">>
NoCmd == [shell |-> <<>>, args |-> <<>>]

VARIABLES
    sessions,   \* SESSIONS: session id -> pid of the registered session, or NoPid
    shardOf,    \* the DashMap shard each key hashes to (fixed for a run)
    calls,      \* the command invocations and where each one stands
    procs,      \* the child processes and their pipes
    pump,       \* the output pump thread of each spawned session
    emitted,    \* per pump, the events it handed to app_handle.emit, in order
    ret         \* what the step just taken handed back to the frontend

vars == <<sessions, shardOf, calls, procs, pump, emitted, ret>>

\* ------------------------------------------------------------ events
\* ShellOutput { session_id, output }
ShellOutput(sid, line) ==
    [type |-> "shell-output", session_id |-> sid, data |-> line]

\* ShellError { session_id, error }
ShellError(sid, err) ==
    [type |-> "shell-error", session_id |-> sid, data |-> err]

\* ShellExit { session_id, exit_status: Option<i32> }; the option is a set
\* with at most one element.
ShellExit(sid, status) ==
    [type |-> "shell-exit", session_id |-> sid, data |-> status]

\* ------------------------------------------------------------ records
\* An invocation slot: unused, in flight (op, pc) or finished.
NoCall ==
    [op |-> "none", sid |-> NoId, pc |-> "unused", pid |-> NoPid,
     input |-> NoInput]

Finished ==
    [op |-> "none", sid |-> NoId, pc |-> "finished", pid |-> NoPid,
     input |-> NoInput]

\* What the step just taken handed back to the frontend: nothing, or the end
\* of invocation n ("returned": the async fn returned (); "panicked": it
\* unwound). how: "skipped" (duplicate start), "unknown" (no such session),
\* "spawn-failed", "done".
NoRet ==
    [n |-> 0, op |-> "none", sid |-> NoId, pid |-> NoPid, result |-> "none",
     how |-> "none"]

Reply(n, op, sid, pid, result, how) ==
    [n |-> n, op |-> op, sid |-> sid, pid |-> pid, result |-> result,
     how |-> how]

\* A Child that was never spawned. out: the bytes in its stdout pipe;
\* written: all it wrote to stdout; stdin: all that was written to its stdin
\* pipe, of which it has read the first stdinRead bytes.
\* env, cmd: the environment it was spawned in and its command line.
\* stderr: the number of bytes in its stderr pipe; blocked: it sits in a
\* write to the full stderr pipe.
NoProc ==
    [sid |-> NoId, st |-> "none", code |-> {}, out |-> <<>>, written |-> <<>>,
     killReq |-> FALSE, stdin |-> <<>>, stdinRead |-> 0, rdErr |-> FALSE,
     env |-> NoEnv, cmd |-> NoCmd, stderr |-> 0, blocked |-> FALSE]

\* ------------------------------------------------------------ registry
\* DashMap::contains_key
ContainsKey(id) == sessions[id] # NoPid

\* A dashmap Ref (shard read guard) lives from send_input's get() to the end
\* of its if-let body.
HoldsRef(c) ==
    calls[c].op = "send" /\ calls[c].pc \in {"lock", "write"}

\* insert() and remove() take the shard's write lock: no Ref on that shard.
ShardWritable(id) ==
    \A c \in Calls : HoldsRef(c) => shardOf[calls[c].sid] # shardOf[id]

\* ------------------------------------------------------------ lines()
\* Index of the first LF of buf, 0 when there is none.
RECURSIVE FirstLF(_, _)
FirstLF(buf, i) ==
    IF i > Len(buf) THEN 0
    ELSE IF buf[i] = LF THEN i
    ELSE FirstLF(buf, i + 1)

\* BufRead::lines strips the "\n" and then a "\r" before it.
StripCR(raw) ==
    IF Len(raw) > 0 /\ raw[Len(raw)] = CR THEN SubSeq(raw, 1, Len(raw) - 1)
    ELSE raw

\* lines() with a reader that throws away what it had buffered behind the
\* line it returns.
ReadLineDropsRest(buf, eof) ==
    LET i == FirstLF(buf, 1) IN
    IF i > 0 THEN
        [kind |-> "line", line |-> StripCR(SubSeq(buf, 1, i - 1)),
         rest |-> <<>>]
    ELSE IF eof /\ Len(buf) > 0 THEN
        [kind |-> "line", line |-> buf, rest |-> <<>>]
    ELSE IF eof THEN
        [kind |-> "end", line |-> <<>>, rest |-> <<>>]
    ELSE
        [kind |-> "block", line |-> <<>>, rest |-> buf]

\* lines() that ends at the last line feed: what follows it is not returned.
ReadLineDropsPartial(buf, eof) ==
    LET i == FirstLF(buf, 1) IN
    IF i > 0 THEN
        [kind |-> "line", line |-> StripCR(SubSeq(buf, 1, i - 1)),
         rest |-> SubSeq(buf, i + 1, Len(buf))]
    ELSE IF eof THEN
        [kind |-> "end", line |-> <<>>, rest |-> <<>>]
    ELSE
        [kind |-> "block", line |-> <<>>, rest |-> buf]

\* One read_line of the pump on the pipe contents buf; eof: the write end is
\* closed. kind is "line" (Some(Ok(line))), "end" (None) or "block".
ReadLine(buf, eof) ==
    LET i == FirstLF(buf, 1) IN
    IF i > 0 THEN
        [kind |-> "line", line |-> StripCR(SubSeq(buf, 1, i - 1)),
         rest |-> SubSeq(buf, i + 1, Len(buf))]
    ELSE IF eof /\ Len(buf) > 0 THEN
        [kind |-> "line", line |-> buf, rest |-> <<>>]
    ELSE IF eof THEN
        [kind |-> "end", line |-> <<>>, rest |-> <<>>]
    ELSE
        [kind |-> "block", line |-> <<>>, rest |-> buf]

\* ------------------------------------------------------------ shell
\* str::to_lowercase
ToLowercase(s) ==
    LET upper == <<"A", "B", "C", "D", "E", "F", "G", "H", "I", "J", "K", "L",
                   "M", "N", "O", "P", "Q", "R", "S", "T", "U", "V", "W", "X",
                   "Y", "Z">>
        lower == <<"a", "b", "c", "d", "e", "f", "g", "h", "i", "j", "k", "l",
                   "m", "n", "o", "p", "q", "r", "s", "t", "u", "v", "w", "x",
                   "y", "z">>
        Lower(ch) == IF \E i \in 1..26 : upper[i] = ch
                     THEN lower[CHOOSE i \in 1..26 : upper[i] = ch]
                     ELSE ch
    IN [i \in 1..Len(s) |-> Lower(s[i])]

\* str::contains
Contains(s, pat) ==
    \E i \in 0..(Len(s) - Len(pat)) : SubSeq(s, i + 1, i + Len(pat)) = pat

Cmd(shell, args) == [shell |-> shell, args |-> args]

\* fn detect_user_shell_and_args() -> (String, Vec<String>)
detect_user_shell_and_args(env) ==
    IF env.os = "windows" THEN
        IF env.SHELL # {} THEN Cmd(CHOOSE v \in env.SHELL : TRUE, <<>>)
        ELSE IF env.ComSpec # {} THEN
            LET comspec == CHOOSE v \in env.ComSpec : TRUE
                shell_lower == ToLowercase(comspec)
            IN IF Contains(shell_lower, <<"c", "m", "d">>)
                   THEN Cmd(comspec, <<"/K">>)
               ELSE IF Contains(shell_lower,
                        <<"p", "o", "w", "e", "r", "s", "h", "e", "l", "l">>)
                   THEN Cmd(comspec, <<"-NoExit">>)
               ELSE Cmd(comspec, <<>>)
        ELSE Cmd(PowershellExe, <<"-NoExit">>)
    ELSE
        IF env.SHELL # {} THEN Cmd(CHOOSE v \in env.SHELL : TRUE, <<>>)
        ELSE Cmd(BinBash, <<>>)

\* ------------------------------------------------------------ helpers
Spawned == {p \in Pids : procs[p].st # "none"}
Running(p) == procs[p].st = "running"
\* A process in a blocking write does nothing else.
CanRun(p) == Running(p) /\ ~procs[p].blocked
TotalOut == LET RECURSIVE Sum(_)
                Sum(S) == IF S = {} THEN 0
                          ELSE LET p == CHOOSE q \in S : TRUE
                               IN Len(procs[p].written) + Sum(S \ {p})
            IN Sum(Pids)

\* ------------------------------------------------------------ Init
Init ==
    /\ sessions = [i \in Ids |-> NoPid]
    /\ shardOf = [i \in Ids |-> IF i = "a" THEN 1 ELSE 2]
    /\ calls = [c \in Calls |-> NoCall]
    /\ procs = [p \in Pids |-> NoProc]
    /\ pump = [p \in Pids |-> "none"]
    /\ emitted = [p \in Pids |-> <<>>]
    /\ ret = NoRet

\* ------------------------------------------------------------ invocations
\* The frontend invokes a command: the invocation takes the next slot. An
\* invocation is modelled from its first access to the registry on; before
\* that it has touched nothing another thread can see.
CanInvoke == \E c \in Calls : calls[c].pc = "unused"

NextCall == CHOOSE c \in Calls : calls[c].pc = "unused" /\
                \A d \in Calls : d < c => calls[d].pc # "unused"

InFlight(c, op, pc) == calls[c].op = op /\ calls[c].pc = pc

Call(op, sid, pc, pid, input) ==
    [op |-> op, sid |-> sid, pc |-> pc, pid |-> pid, input |-> input]

\* The child a successful spawn() creates.
CanSpawn == \E p \in Pids : procs[p].st = "none"

NewPid == CHOOSE p \in Pids : procs[p].st = "none" /\
              \A q \in Pids : q < p => procs[q].st # "none"

\* ------------------------------------------------------------ start_shell
\* start_shell without the duplicate check: it spawns although the id is
\* registered.
StartSkipSpawns(id) ==
    /\ CanInvoke
    /\ ContainsKey(id)
    /\ CanSpawn
    /\ procs' = [procs EXCEPT ![NewPid] =
            [NoProc EXCEPT !.sid = id, !.st = "running"]]
    /\ calls' = [calls EXCEPT
            ![NextCall] = Call("start", id, "insert", NewPid, NoInput)]
    /\ ret' = NoRet
    /\ UNCHANGED <<sessions, shardOf, pump, emitted>>

\* if get_sessions().contains_key(&session_id) { return; }
StartSkip(id) ==
    /\ CanInvoke
    /\ ContainsKey(id)
    /\ calls' = [calls EXCEPT ![NextCall] = Finished]
    /\ ret' = Reply(NextCall, "start", id, NoPid, "returned", "skipped")
    /\ UNCHANGED <<sessions, shardOf, procs, pump, emitted>>

\* let (shell, args) = detect_user_shell_and_args();
\* Command::new(&shell).args(&args)...spawn() succeeds: a new child with
\* piped stdio, in the environment env of the application.
StartSpawnIn(id, env) ==
    /\ CanInvoke
    /\ ~ContainsKey(id)
    /\ CanSpawn
    /\ procs' = [procs EXCEPT ![NewPid] =
            [NoProc EXCEPT !.sid = id, !.st = "running", !.env = env,
                           !.cmd = detect_user_shell_and_args(env)]]
    /\ calls' = [calls EXCEPT
            ![NextCall] = Call("start", id, "insert", NewPid, NoInput)]
    /\ ret' = NoRet
    /\ UNCHANGED <<sessions, shardOf, pump, emitted>>

StartSpawnOk(id) == StartSpawnIn(id, HostEnv)

\* spawn() fails: .expect("Failed to spawn shell") panics and the invocation
\* unwinds.
StartSpawnFail(id) ==
    /\ CanInvoke
    /\ ~ContainsKey(id)
    /\ calls' = [calls EXCEPT ![NextCall] = Finished]
    /\ ret' = Reply(NextCall, "start", id, NoPid, "panicked", "spawn-failed")
    /\ UNCHANGED <<sessions, shardOf, procs, pump, emitted>>

\* get_sessions().insert(session_id, session); std::thread::spawn(pump); return
StartInsert(c) ==
    /\ InFlight(c, "start", "insert")
    /\ ShardWritable(calls[c].sid)
    /\ sessions' = [sessions EXCEPT ![calls[c].sid] = calls[c].pid]
    /\ pump' = [pump EXCEPT ![calls[c].pid] = "read"]
    /\ calls' = [calls EXCEPT ![c] = Finished]
    /\ ret' = Reply(c, "start", calls[c].sid, calls[c].pid, "returned", "done")
    /\ UNCHANGED <<shardOf, procs, emitted>>

\* ------------------------------------------------------------ output pump
StdoutClosed(p) == ~Running(p)

\* A pump that reads the session id from the session started last instead of
\* its own copy.
LatestPid == CHOOSE p \in Spawned : \A q \in Spawned : q <= p

PumpLineLatestSid(p) ==
    /\ pump[p] = "read"
    /\ LET r == ReadLine(procs[p].out, ~Running(p)) IN
        /\ r.kind = "line"
        /\ emitted' = [emitted EXCEPT
                ![p] = Append(@, ShellOutput(procs[LatestPid].sid, r.line))]
        /\ procs' = [procs EXCEPT ![p].out = r.rest]
    /\ ret' = NoRet
    /\ UNCHANGED <<sessions, shardOf, calls, pump>>

\* for line in reader.lines() : Ok(line) => emit shell-output
PumpLine(p) ==
    /\ pump[p] = "read"
    /\ LET r == ReadLine(procs[p].out, StdoutClosed(p)) IN
        /\ r.kind = "line"
        /\ emitted' = [emitted EXCEPT
                ![p] = Append(@, ShellOutput(procs[p].sid, r.line))]
        /\ procs' = [procs EXCEPT ![p].out = r.rest]
    /\ ret' = NoRet
    /\ UNCHANGED <<sessions, shardOf, calls, pump>>

\* lines() returns None: the loop ends, and the pump takes the child mutex
\* (child_arc.lock().unwrap(), never contended for longer than a kill()) and
\* sits in wait() holding it.
PumpEnd(p) ==
    /\ pump[p] = "read"
    /\ ReadLine(procs[p].out, StdoutClosed(p)).kind = "end"
    /\ pump' = [pump EXCEPT ![p] = "waiting"]
    /\ ret' = NoRet
    /\ UNCHANGED <<sessions, shardOf, calls, procs, emitted>>

\* A pump that goes on reading after a read error (continue for break).
PumpReadErrRetries(p) ==
    /\ pump[p] = "read"
    /\ procs' = [procs EXCEPT ![p].rdErr = TRUE]
    /\ emitted' = [emitted EXCEPT
            ![p] = Append(@, ShellError(procs[p].sid, "io"))]
    /\ ret' = NoRet
    /\ UNCHANGED <<sessions, shardOf, calls, pump>>

\* Err(e) => emit shell-error; break; then child_arc.lock().unwrap().wait()
PumpReadErr(p) ==
    /\ pump[p] = "read"
    /\ procs' = [procs EXCEPT ![p].rdErr = TRUE]
    /\ emitted' = [emitted EXCEPT
            ![p] = Append(@, ShellError(procs[p].sid, "io"))]
    /\ pump' = [pump EXCEPT ![p] = "waiting"]
    /\ ret' = NoRet
    /\ UNCHANGED <<sessions, shardOf, calls>>

\* ExitStatus::code() of a child that ended in state st: Some(code) after a
\* normal exit; after kill() None where the child dies of a signal (Unix) and
\* Some(1) where kill() is TerminateProcess(handle, 1) (Windows). The code is
\* first seen here, so it is drawn here.
WaitCode(st) ==
    IF st = "exited" THEN {{code} : code \in ExitCodes} ELSE {{}, {1}}

\* A pump that emits shell-exit and does not end.
PumpExitStays(p, status) ==
    /\ pump[p] = "waiting"
    /\ ~Running(p)
    /\ status \in WaitCode(procs[p].st)
    /\ procs' = [procs EXCEPT ![p].code = status]
    /\ emitted' = [emitted EXCEPT
            ![p] = Append(@, ShellExit(procs[p].sid, status))]
    /\ ret' = NoRet
    /\ UNCHANGED <<sessions, shardOf, calls, pump>>

\* A pump that takes the entry of its session out of the registry when the
\* child is gone.
PumpExitPrunes(p, status) ==
    /\ pump[p] = "waiting"
    /\ ~Running(p)
    /\ status \in WaitCode(procs[p].st)
    /\ procs' = [procs EXCEPT ![p].code = status]
    /\ emitted' = [emitted EXCEPT
            ![p] = Append(@, ShellExit(procs[p].sid, status))]
    /\ pump' = [pump EXCEPT ![p] = "done"]
    /\ sessions' = [sessions EXCEPT
            ![procs[p].sid] = IF @ = p THEN NoPid ELSE @]
    /\ ret' = NoRet
    /\ UNCHANGED <<shardOf, calls>>

\* wait().ok().and_then(|s| s.code()) returns once the child is gone; the
\* guard is dropped and shell-exit is emitted.
PumpExit(p, status) ==
    /\ pump[p] = "waiting"
    /\ ~Running(p)
    /\ status \in WaitCode(procs[p].st)
    /\ procs' = [procs EXCEPT ![p].code = status]
    /\ emitted' = [emitted EXCEPT
            ![p] = Append(@, ShellExit(procs[p].sid, status))]
    /\ pump' = [pump EXCEPT ![p] = "done"]
    /\ ret' = NoRet
    /\ UNCHANGED <<sessions, shardOf, calls>>

\* ------------------------------------------------------------ send_input
\* send_input that unwraps the lookup: an unknown id panics.
SendUnknownPanics(id, input) ==
    /\ CanInvoke
    /\ ~ContainsKey(id)
    /\ calls' = [calls EXCEPT ![NextCall] = Finished]
    /\ ret' = Reply(NextCall, "send", id, NoPid, "panicked", "unknown")
    /\ UNCHANGED <<sessions, shardOf, procs, pump, emitted>>

\* if let Some(session) = get_sessions().get(&session_id) : None
SendUnknown(id, input) ==
    /\ CanInvoke
    /\ ~ContainsKey(id)
    /\ calls' = [calls EXCEPT ![NextCall] = Finished]
    /\ ret' = Reply(NextCall, "send", id, NoPid, "returned", "unknown")
    /\ UNCHANGED <<sessions, shardOf, procs, pump, emitted>>

\* get() : Some(session), a Ref into the shard
SendLookup(id, input) ==
    /\ CanInvoke
    /\ ContainsKey(id)
    /\ calls' = [calls EXCEPT
            ![NextCall] = Call("send", id, "lock", sessions[id], input)]
    /\ ret' = NoRet
    /\ UNCHANGED <<sessions, shardOf, procs, pump, emitted>>

\* send_input that writes without taking the stdin mutex.
SendLockNoMutex(c) ==
    /\ InFlight(c, "send", "lock")
    /\ calls' = [calls EXCEPT ![c].pc = "write"]
    /\ ret' = NoRet
    /\ UNCHANGED <<sessions, shardOf, procs, pump, emitted>>

\* session.stdin.lock().unwrap()
StdinLocked(p) ==
    \E c \in Calls : InFlight(c, "send", "write") /\ calls[c].pid = p

SendLock(c) ==
    /\ InFlight(c, "send", "lock")
    /\ ~StdinLocked(calls[c].pid)
    /\ calls' = [calls EXCEPT ![c].pc = "write"]
    /\ ret' = NoRet
    /\ UNCHANGED <<sessions, shardOf, procs, pump, emitted>>

\* Room left in the stdin pipe of p when the pipe holds cap bytes.
StdinRoom(p, cap) == cap - (Len(procs[p].stdin) - procs[p].stdinRead)

\* send_input that unwraps the result of the write: a failed write panics.
WriteAllUnwraps(c, cap) ==
    /\ InFlight(c, "send", "write")
    /\ LET p == calls[c].pid
           text == calls[c].input
           room == StdinRoom(p, cap)
           k == IF Len(text) <= room THEN Len(text) ELSE room
       IN  IF ~Running(p) THEN
               /\ calls' = [calls EXCEPT ![c] = Finished]
               /\ ret' = Reply(c, "send", calls[c].sid, p, "panicked", "done")
               /\ UNCHANGED procs
           ELSE
               /\ k > 0
               /\ procs' = [procs EXCEPT
                       ![p].stdin = @ \o SubSeq(text, 1, k)]
               /\ IF k = Len(text) THEN
                       /\ calls' = [calls EXCEPT ![c] = Finished]
                       /\ ret' = Reply(c, "send", calls[c].sid, p,
                                       "returned", "done")
                  ELSE
                       /\ calls' = [calls EXCEPT
                               ![c].input = SubSeq(text, k + 1, Len(text))]
                       /\ ret' = NoRet
    /\ UNCHANGED <<sessions, shardOf, pump, emitted>>

\* let _ = write!(stdin, "{}", input); let _ = stdin.flush();
\* write! on an unbuffered ChildStdin is write_all(input): write() calls that
\* each put what fits into the pipe and block while it is full, until the
\* text is through. calls[c].input is what is still to be written. A write
\* to the pipe of a child that is gone fails; the error is ignored and the
\* invocation returns.
WriteAll(c, cap) ==
    /\ InFlight(c, "send", "write")
    /\ LET p == calls[c].pid
           text == calls[c].input
           room == StdinRoom(p, cap)
           k == IF Len(text) <= room THEN Len(text) ELSE room
       IN  IF ~Running(p) THEN
               /\ calls' = [calls EXCEPT ![c] = Finished]
               /\ ret' = Reply(c, "send", calls[c].sid, p, "returned", "done")
               /\ UNCHANGED procs
           ELSE
               /\ k > 0
               /\ procs' = [procs EXCEPT
                       ![p].stdin = @ \o SubSeq(text, 1, k)]
               /\ IF k = Len(text) THEN
                       /\ calls' = [calls EXCEPT ![c] = Finished]
                       /\ ret' = Reply(c, "send", calls[c].sid, p,
                                       "returned", "done")
                  ELSE
                       /\ calls' = [calls EXCEPT
                               ![c].input = SubSeq(text, k + 1, Len(text))]
                       /\ ret' = NoRet
    /\ UNCHANGED <<sessions, shardOf, pump, emitted>>

\* The write of a text that fits into the room the pipe has left.
SendWrite(c) ==
    WriteAll(c, Len(procs[calls[c].pid].stdin) + Len(calls[c].input))

\* The write into a pipe of StdinCap bytes.
SendWriteCap(c) == WriteAll(c, StdinCap)

\* ------------------------------------------------------------ close_shell
\* if let Some((_, session)) = get_sessions().remove(&session_id) : None
CloseUnknown(id) ==
    /\ CanInvoke
    /\ ShardWritable(id)
    /\ ~ContainsKey(id)
    /\ calls' = [calls EXCEPT ![NextCall] = Finished]
    /\ ret' = Reply(NextCall, "close", id, NoPid, "returned", "unknown")
    /\ UNCHANGED <<sessions, shardOf, procs, pump, emitted>>

\* remove() : Some((_, session))
CloseRemove(id) ==
    /\ CanInvoke
    /\ ShardWritable(id)
    /\ ContainsKey(id)
    /\ sessions' = [sessions EXCEPT ![id] = NoPid]
    /\ calls' = [calls EXCEPT
            ![NextCall] = Call("close", id, "kill", sessions[id], NoInput)]
    /\ ret' = NoRet
    /\ UNCHANGED <<shardOf, procs, pump, emitted>>

\* close_shell that drops the session without kill().
CloseKillNoKill(c) ==
    /\ InFlight(c, "close", "kill")
    /\ ~(pump[calls[c].pid] = "waiting")
    /\ calls' = [calls EXCEPT ![c] = Finished]
    /\ ret' = Reply(c, "close", calls[c].sid, calls[c].pid, "returned", "done")
    /\ UNCHANGED <<sessions, shardOf, procs, pump, emitted>>

\* close_shell that kills through a handle of its own, without the mutex.
CloseKillNoMutex(c) ==
    /\ InFlight(c, "close", "kill")
    /\ procs' = [procs EXCEPT
            ![calls[c].pid].killReq = TRUE,
            ![calls[c].pid].st = IF @ = "running" THEN "signaled" ELSE @]
    /\ calls' = [calls EXCEPT ![c] = Finished]
    /\ ret' = Reply(c, "close", calls[c].sid, calls[c].pid, "returned", "done")
    /\ UNCHANGED <<sessions, shardOf, pump, emitted>>

\* let _ = session.child.lock().unwrap().kill();
\* The child mutex is held by the pump while it waits.
ChildLocked(p) == pump[p] = "waiting"

CloseKill(c) ==
    /\ InFlight(c, "close", "kill")
    /\ ~ChildLocked(calls[c].pid)
    /\ procs' = [procs EXCEPT
            ![calls[c].pid].killReq = TRUE,
            ![calls[c].pid].st = IF @ = "running" THEN "signaled" ELSE @]
    /\ calls' = [calls EXCEPT ![c] = Finished]
    /\ ret' = Reply(c, "close", calls[c].sid, calls[c].pid, "returned", "done")
    /\ UNCHANGED <<sessions, shardOf, pump, emitted>>

\* ------------------------------------------------------------ children
\* The read end of the stdout pipe lives in start_shell and then in the pump's
\* reader, until the read loop ends.
StdoutOpen(p) == pump[p] \in {"none", "read"}

\* The shell writes a byte to its standard output.
ChildWrite(p, b, max) ==
    /\ CanRun(p)
    /\ StdoutOpen(p)
    /\ TotalOut < max
    /\ procs' = [procs EXCEPT ![p].out = Append(@, b),
                              ![p].written = Append(@, b)]
    /\ ret' = NoRet
    /\ UNCHANGED <<sessions, shardOf, calls, pump, emitted>>

\* The shell reads a byte from its standard input.
ChildRead(p) ==
    /\ CanRun(p)
    /\ procs[p].stdinRead < Len(procs[p].stdin)
    /\ procs' = [procs EXCEPT ![p].stdinRead = @ + 1]
    /\ ret' = NoRet
    /\ UNCHANGED <<sessions, shardOf, calls, pump, emitted>>

\* The shell writes a byte to its standard error: .stderr(Stdio::piped())
\* gives it a pipe whose read end stays in the Child and is never read, so
\* the byte stays in the pipe, and the write blocks when the pipe is full.
ChildWriteErr(p, cap) ==
    /\ CanRun(p)
    /\ procs' = [procs EXCEPT
            ![p].stderr = IF @ < cap THEN @ + 1 ELSE @,
            ![p].blocked = procs[p].stderr >= cap]
    /\ ret' = NoRet
    /\ UNCHANGED <<sessions, shardOf, calls, pump, emitted>>

\* The shell exits on its own.
ChildExit(p) ==
    /\ CanRun(p)
    /\ procs' = [procs EXCEPT ![p].st = "exited"]
    /\ ret' = NoRet
    /\ UNCHANGED <<sessions, shardOf, calls, pump, emitted>>

\* ------------------------------------------------------------ Next
start_shell ==
    \/ \E id \in Ids : StartSkip(id)
    \/ \E id \in Ids : StartSpawnOk(id)
    \/ \E id \in Ids : StartSpawnFail(id)
    \/ \E c \in Calls : StartInsert(c)

send_input ==
    \/ \E id \in Ids : \E input \in Inputs : SendUnknown(id, input)
    \/ \E id \in Ids : \E input \in Inputs : SendLookup(id, input)
    \/ \E c \in Calls : SendLock(c)
    \/ \E c \in Calls : SendWrite(c)

close_shell ==
    \/ \E id \in Ids : CloseUnknown(id)
    \/ \E id \in Ids : CloseRemove(id)
    \/ \E c \in Calls : CloseKill(c)

PumpStep(p) ==
    \/ PumpLine(p)
    \/ PumpEnd(p)
    \/ PumpReadErr(p)
    \/ \E status \in SUBSET ExitCodes : PumpExit(p, status)

Next ==
    \/ start_shell
    \/ send_input
    \/ close_shell
    \/ \E p \in Pids : PumpStep(p)
    \/ \E p \in Pids : \E b \in Bytes : ChildWrite(p, b, MaxOut)
    \/ \E p \in Pids : ChildExit(p)

Spec == Init /\ [][Next]_vars

\* The runs that follow one session's output through its pump: the frontend
\* starts one session and may close it, and the child writes more.
NextPump ==
    \/ \E id \in Ids : Spawned = {} /\ StartSpawnOk(id)
    \/ \E c \in Calls : StartInsert(c)
    \/ \E id \in Ids : CloseRemove(id)
    \/ \E c \in Calls : CloseKill(c)
    \/ \E p \in Pids : PumpStep(p)
    \/ \E p \in Pids : \E b \in PumpBytes : ChildWrite(p, b, PumpOut)
    \/ \E p \in Pids : ChildExit(p)

SpecPump == Init /\ [][NextPump]_vars

\* The scheduler runs every thread that can take a step: each step of a
\* command and of a pump is weakly fair. Nothing obliges the frontend to
\* invoke a command, a child to write or to exit, or a read to fail.
Fairness ==
    /\ \A c \in Calls : WF_vars(StartInsert(c))
    /\ \A c \in Calls : WF_vars(SendLock(c))
    /\ \A c \in Calls : WF_vars(SendWrite(c))
    /\ \A c \in Calls : WF_vars(CloseKill(c))
    /\ \A p \in Pids : WF_vars(PumpLine(p))
    /\ \A p \in Pids : WF_vars(PumpEnd(p))
    /\ \A p \in Pids : WF_vars(\E status \in SUBSET ExitCodes : PumpExit(p, status))

FairSpec == Spec /\ Fairness

\* The runs that follow the input of one running session: start_shell("a")
\* has returned, the child is silent, its stdin pipe holds StdinCap bytes
\* and the child reads from it; the frontend sends texts and closes. The two
\* ids share a DashMap shard or do not.
InitInput ==
    /\ sessions = [i \in Ids |-> IF i = "a" THEN 1 ELSE NoPid]
    /\ shardOf \in {[i \in Ids |-> 1], [i \in Ids |-> IF i = "a" THEN 1 ELSE 2]}
    /\ calls = [c \in Calls |-> NoCall]
    /\ procs = [p \in Pids |->
            IF p = 1 THEN
                [NoProc EXCEPT !.sid = "a", !.st = "running", !.env = HostEnv,
                               !.cmd = detect_user_shell_and_args(HostEnv)]
            ELSE NoProc]
    /\ pump = [p \in Pids |-> IF p = 1 THEN "read" ELSE "none"]
    /\ emitted = [p \in Pids |-> <<>>]
    /\ ret = NoRet

NextInput ==
    \/ \E id \in Ids : \E input \in InputTexts : SendUnknown(id, input)
    \/ \E id \in Ids : \E input \in InputTexts : SendLookup(id, input)
    \/ \E c \in Calls : SendLock(c)
    \/ \E c \in Calls : SendWriteCap(c)
    \/ close_shell
    \/ \E p \in Pids : PumpEnd(p)
    \/ \E p \in Pids : PumpReadErr(p)
    \/ \E p \in Pids : \E status \in SUBSET ExitCodes : PumpExit(p, status)
    \/ \E p \in Pids : ChildRead(p)
    \/ \E p \in Pids : ChildExit(p)

SpecInput == InitInput /\ [][NextInput]_vars

\* The runs that use the id of a running session again: start_shell("a") has
\* returned, and the frontend closes and starts sessions.
NextReuse ==
    \/ start_shell
    \/ close_shell
    \/ \E p \in Pids : PumpStep(p)
    \/ \E p \in Pids : \E b \in Bytes : ChildWrite(p, b, MaxOut)
    \/ \E p \in Pids : ChildExit(p)

SpecReuse == InitInput /\ [][NextReuse]_vars

\* The runs of one session whose child writes to its standard error as well:
\* the frontend starts the session and leaves it alone, and no read fails.
NextErr ==
    \/ \E id \in Ids : Spawned = {} /\ StartSpawnOk(id)
    \/ \E c \in Calls : StartInsert(c)
    \/ \E p \in Pids : PumpLine(p)
    \/ \E p \in Pids : PumpEnd(p)
    \/ \E p \in Pids : \E status \in SUBSET ExitCodes : PumpExit(p, status)
    \/ \E p \in Pids : \E b \in PumpBytes : ChildWrite(p, b, PumpOut)
    \/ \E p \in Pids : ChildWriteErr(p, StderrCap)
    \/ \E p \in Pids : ChildExit(p)

SpecErr == Init /\ [][NextErr]_vars

\* The scheduler of the operating system runs the child as well: a child
\* that can write or exit does so. Nothing obliges the frontend to close.
FairErr ==
    /\ SpecErr
    /\ Fairness
    /\ \A p \in Pids : WF_vars(ChildWriteErr(p, StderrCap) \/ ChildExit(p))

\* The runs that look at the shell command: start_shell in every environment.
NextShell ==
    \/ \E id \in Ids : \E env \in Envs : StartSpawnIn(id, env)
    \/ \E c \in Calls : StartInsert(c)
    \/ \E id \in Ids : StartSkip(id)

SpecShell == Init /\ [][NextShell]_vars

\* ============================================================ claims
\* ------------------------------------------------------------ vocabulary
EventTypes(p) == [i \in 1..Len(emitted[p]) |-> emitted[p][i].type]

Positions(p, type) == {i \in 1..Len(emitted[p]) : emitted[p][i].type = type}

\* A command invocation that still holds the child p.
HeldByCall(p) ==
    \E c \in Calls : calls[c].op # "none" /\ calls[c].pid = p

\* The step is the first step of an invocation of op on id.
Begins(op, id) ==
    /\ CanInvoke
    /\ calls'[NextCall] # calls[NextCall]
    /\ \/ calls'[NextCall].op = op /\ calls'[NextCall].sid = id
       \/ ret'.n = NextCall /\ ret'.op = op /\ ret'.sid = id

\* ------------------------------------------------------------ C1
\* C1: concurrent start_shell(id) calls spawn and keep at most one child:
\* every running child that no invocation still holds is the registry entry
\* of its id, and no two pumps run for sessions of one id that were not
\* closed.
C1_AtMostOneChildPerId ==
    /\ \A p \in Spawned :
        (Running(p) /\ ~HeldByCall(p)) => sessions[procs[p].sid] = p
    /\ \A p, q \in Spawned :
        (/\ p # q
         /\ procs[p].sid = procs[q].sid
         /\ pump[p] \in {"read", "waiting"} /\ pump[q] \in {"read", "waiting"}
         /\ ~procs[p].killReq /\ ~procs[q].killReq
         /\ ~HeldByCall(p) /\ ~HeldByCall(q)) => FALSE

\* ------------------------------------------------------------ C2
\* C2: a start_shell(id) that finds id registered returns at once and changes
\* neither the registry nor any child, pump or event.
C2_DuplicateStartIsNoOp ==
    [][\A id \in Ids :
        (Begins("start", id) /\ ContainsKey(id)) =>
            /\ ret'.n = NextCall /\ ret'.result = "returned"
            /\ UNCHANGED <<sessions, procs, pump, emitted>>]_vars

\* A duplicate start has just returned and its id has the one child it had.
C2_Witness ==
    /\ ret.op = "start" /\ ret.how = "skipped"
    /\ ContainsKey(ret.sid)
    /\ Cardinality({p \in Spawned : procs[p].sid = ret.sid}) = 1
    /\ Running(sessions[ret.sid])

\* ------------------------------------------------------------ C3
\* C3: when close_shell(id) returns for a registered id, the session it found
\* is no longer the registry entry of id and kill() was called on its child;
\* the call returns also when the child had exited before.
C3_CloseRemovesAndKills ==
    (ret.op = "close" /\ ret.pid # NoPid) =>
        /\ ret.result = "returned"
        /\ sessions[ret.sid] # ret.pid
        /\ procs[ret.pid].killReq
        /\ ~Running(ret.pid)

\* close_shell has just returned for a session whose child had exited on its
\* own: the kill() that fails.
C3_Witness ==
    /\ ret.op = "close" /\ ret.pid # NoPid
    /\ procs[ret.pid].st = "exited"

\* ------------------------------------------------------------ C4
\* C4: a pump emits shell-exit at most once, as its last event, and a pump has
\* ended exactly when it has emitted it.
C4_ExitOnceAndLast ==
    \A p \in Pids :
        /\ Cardinality(Positions(p, "shell-exit")) <= 1
        /\ \A i \in Positions(p, "shell-exit") : i = Len(emitted[p])
        /\ (pump[p] = "done") <=> (Positions(p, "shell-exit") # {})

\* A pump ended after an output line and a read error.
C4_Witness ==
    \E p \in Pids :
        /\ pump[p] = "done"
        /\ EventTypes(p) = <<"shell-output", "shell-error", "shell-exit">>

\* ------------------------------------------------------------ C5
\* The positions of the line feeds of the byte stream w.
LineFeeds(w) == {i \in 1..Len(w) : w[i] = LF}

\* w is a sequence of complete lines.
CompleteLines(w) == w = <<>> \/ w[Len(w)] = LF

\* The position of the k-th line feed of w.
LineEnd(w, k) ==
    IF k = 0 THEN 0
    ELSE CHOOSE i \in LineFeeds(w) :
            Cardinality({j \in LineFeeds(w) : j <= i}) = k

\* The text of the k-th line of w, without its terminator (\n or \r\n).
LineText(w, k) ==
    LET first == LineEnd(w, k - 1) + 1
        last == LineEnd(w, k) - 1
    IN IF last >= first /\ w[last] = CR THEN SubSeq(w, first, last - 1)
       ELSE SubSeq(w, first, last)

\* C5: a pump that ended without a read error on a stream of N complete lines
\* emitted N shell-output events with the texts of the lines in order, then
\* one shell-exit, and nothing else.
C5_CompleteLinesInOrder ==
    \A p \in Pids :
        (/\ pump[p] = "done"
         /\ ~procs[p].rdErr
         /\ CompleteLines(procs[p].written)) =>
            LET w == procs[p].written
                n == Cardinality(LineFeeds(w))
            IN /\ Len(emitted[p]) = n + 1
               /\ \A k \in 1..n :
                    /\ emitted[p][k].type = "shell-output"
                    /\ emitted[p][k].data = LineText(w, k)
               /\ emitted[p][n + 1].type = "shell-exit"

\* A pump ended after two different complete lines.
C5_Witness ==
    \E p \in Pids :
        /\ pump[p] = "done"
        /\ ~procs[p].rdErr
        /\ CompleteLines(procs[p].written)
        /\ Cardinality(LineFeeds(procs[p].written)) = 2
        /\ LineText(procs[p].written, 1) # LineText(procs[p].written, 2)

\* ------------------------------------------------------------ C6
\* C6: after a failed read the pump has emitted exactly one shell-error, reads
\* no more, and emits nothing after the error but its one shell-exit.
C6_ReadErrorStopsThePump ==
    \A p \in Pids :
        procs[p].rdErr =>
            /\ Cardinality(Positions(p, "shell-error")) = 1
            /\ pump[p] \in {"waiting", "done"}
            /\ \A e \in Positions(p, "shell-error") :
                /\ \A i \in (e + 1)..Len(emitted[p]) :
                    emitted[p][i].type = "shell-exit"
                /\ Len(emitted[p]) <= e + 1
                /\ (pump[p] = "done") => Len(emitted[p]) = e + 1

\* A pump ended after a read error that left a byte unread in the pipe.
C6_Witness ==
    \E p \in Pids :
        /\ procs[p].rdErr
        /\ pump[p] = "done"
        /\ procs[p].out # <<>>

\* ------------------------------------------------------------ C7
\* C7: send_input and close_shell on an id that is not registered return at
\* once and change neither the registry nor any child, stdin, pump or event.
C7_UnknownIdIsIgnored ==
    [][\A id \in Ids :
        ((Begins("send", id) \/ Begins("close", id)) /\ ~ContainsKey(id)) =>
            /\ ret'.n = NextCall /\ ret'.result = "returned"
            /\ UNCHANGED <<sessions, procs, pump, emitted>>]_vars

\* close_shell on an unknown id has just returned while another session runs.
C7_Witness ==
    /\ ret.op = "close" /\ ret.how = "unknown"
    /\ \E id \in Ids : ContainsKey(id) /\ Running(sessions[id])

\* ------------------------------------------------------------ C8
\* C8: a start_shell whose spawn fails hands an error back to its caller and
\* changes neither the registry nor any child, pump or event.
C8_SpawnFailureIsReported ==
    [][(ret' # ret /\ ret'.how = "spawn-failed") =>
            /\ ret'.result = "error"
            /\ UNCHANGED <<sessions, procs, pump, emitted>>]_vars

\* ------------------------------------------------------------ C9
\* close_shell has removed the session of child p, which still runs.
ClosingRunning(p) ==
    \E c \in Calls : InFlight(c, "close", "kill") /\ calls[c].pid = p /\ Running(p)

\* C9: once close_shell has taken a running session out of the registry, its
\* pump eventually emits shell-exit.
C9_CloseLeadsToExit ==
    \A p \in Pids : ClosingRunning(p) ~> (Positions(p, "shell-exit") # {})

\* ------------------------------------------------------------ C10
\* C10: every event a pump emits carries the session id its child was started
\* under, and a registered child is registered under that id.
C10_EventsCarryOwnSessionId ==
    /\ \A p \in Pids : \A i \in 1..Len(emitted[p]) :
        emitted[p][i].session_id = procs[p].sid
    /\ \A id \in Ids : ContainsKey(id) => procs[sessions[id]].sid = id

\* Two sessions with different ids have both emitted events, one of them an
\* output line.
C10_Witness ==
    \E p, q \in Pids :
        /\ procs[p].sid # procs[q].sid
        /\ Positions(p, "shell-output") # {}
        /\ emitted[q] # <<>>

\* ------------------------------------------------------------ C11
\* A send_input that sits in a write to a full stdin pipe of a running child.
BlockedWriting(d) ==
    /\ InFlight(d, "send", "write")
    /\ Running(calls[d].pid)
    /\ StdinRoom(calls[d].pid, StdinCap) = 0

\* C11: an operation on one id never waits for an operation in progress on
\* another id: a send_input blocked in the write to its own session's stdin
\* pipe never stands in the way of the registry access of a start_shell, a
\* send_input or a close_shell on a different id.
C11_OtherIdsNeverWait ==
    \A d \in Calls : \A id \in Ids :
        (BlockedWriting(d) /\ calls[d].sid # id) => ShardWritable(id)

\* ------------------------------------------------------------ C12
\* s is a concatenation of complete texts.
RECURSIVE IsConcat(_)
IsConcat(s) ==
    \/ s = <<>>
    \/ \E t \in InputTexts :
        /\ Len(t) <= Len(s)
        /\ SubSeq(s, 1, Len(t)) = t
        /\ IsConcat(SubSeq(s, Len(t) + 1, Len(s)))

\* The invocations that hold the stdin of p and write to it.
Writers(p) ==
    {c \in Calls : InFlight(c, "send", "write") /\ calls[c].pid = p}

\* What the writer at work on p has still to write.
ToWrite(p) ==
    IF Writers(p) = {} THEN <<>>
    ELSE calls[CHOOSE c \in Writers(p) : TRUE].input

\* What invocation c has still to write after the step.
RestAfter(c) ==
    IF calls'[c].op = "send" THEN calls'[c].input ELSE <<>>

\* C12: concurrent send_input calls on one session write one at a time and
\* the bytes in the child's stdin pipe are the calls' complete texts one
\* after the other, unchanged and with nothing added: every step that
\* writes to the pipe appends the next bytes of the one writer's text, and
\* while the child runs the bytes written, completed by what the writer at
\* work has still to write, are a concatenation of complete texts; after
\* the child is gone they are still the beginning of one.
C12_TextsAreNotInterleaved ==
    [][\A p \in Pids :
        /\ procs'[p].stdin # procs[p].stdin =>
            \E c \in Calls :
                /\ Writers(p) = {c}
                /\ procs'[p].stdin \o RestAfter(c)
                        = procs[p].stdin \o calls[c].input
        /\ Cardinality(Writers(p)') <= 1
        /\ Running(p)' => IsConcat(procs'[p].stdin \o ToWrite(p)')
        /\ \E t \in InputTexts : \E k \in 1..(Len(t) + 1) :
                IsConcat(procs'[p].stdin \o SubSeq(t, k, Len(t)))
      ]_vars

\* One send_input is in the middle of its text, the pipe is full, and
\* another send_input on the same session waits for the stdin.
C12_Witness ==
    \E c \in Calls : \E d \in Calls :
        /\ InFlight(c, "send", "write")
        /\ InFlight(d, "send", "lock")
        /\ calls[c].pid = calls[d].pid
        /\ Len(calls[c].input) = 1
        /\ StdinRoom(calls[c].pid, StdinCap) = 0
        /\ Running(calls[c].pid)

\* ------------------------------------------------------------ C13
\* The pump of p left its read loop at the end of the stream.
ReadToTheEnd(p) ==
    pump[p] \in {"waiting", "done"} /\ ~procs[p].rdErr

\* What the child wrote after its last line feed.
PartialRecord(w) ==
    SubSeq(w, LineEnd(w, Cardinality(LineFeeds(w))) + 1, Len(w))

\* C13: a last record without a line terminator is not emitted: a pump that
\* read its stream to the end emitted as many shell-output events as the
\* stream has line terminators.
C13_PartialRecordIsDropped ==
    \A p \in Pids :
        ReadToTheEnd(p) =>
            Cardinality(Positions(p, "shell-output"))
                = Cardinality(LineFeeds(procs[p].written))

\* C13, as the code has it: lines() returns what follows the last line
\* terminator as a last line when the stream ends, so a pump that read its
\* stream to the end emitted one shell-output per line terminator and one
\* more, carrying the partial record unchanged, when the stream does not end
\* with a terminator.
C13_PartialRecordIsEmitted ==
    \A p \in Pids :
        ReadToTheEnd(p) =>
            LET w == procs[p].written
                n == Cardinality(LineFeeds(w))
                outputs == Positions(p, "shell-output")
            IN IF PartialRecord(w) = <<>> THEN outputs = 1..n
               ELSE /\ outputs = 1..(n + 1)
                    /\ emitted[p][n + 1].data = PartialRecord(w)

\* A pump read to the end a stream of a complete line and a partial record.
C13_Witness ==
    \E p \in Pids :
        /\ ReadToTheEnd(p)
        /\ Cardinality(LineFeeds(procs[p].written)) = 1
        /\ PartialRecord(procs[p].written) # <<>>
        /\ pump[p] = "done"

\* ------------------------------------------------------------ C14
\* The file name of a Windows path, in lower case (file names are not case
\* sensitive there).
FileName(path) ==
    LET seps == {i \in 1..Len(path) : path[i] = "\\"}
        from == IF seps = {} THEN 1
                ELSE 1 + CHOOSE i \in seps : \A j \in seps : j <= i
    IN ToLowercase(SubSeq(path, from, Len(path)))

ClassicCommandShells == {<<"c", "m", "d">>}
PowerShellFamily ==
    {<<"p", "o", "w", "e", "r", "s", "h", "e", "l", "l">>,
     <<"p", "w", "s", "h">>}

\* The policy table of the claim.
PolicyTable(env) ==
    LET shell == CHOOSE v \in env.SHELL : TRUE
        comspec == CHOOSE v \in env.ComSpec : TRUE
    IN CASE env.SHELL # {} -> Cmd(shell, <<>>)
         [] env.os # "windows" -> Cmd(BinBash, <<>>)
         [] env.ComSpec = {} -> Cmd(PowershellExe, <<"-NoExit">>)
         [] FileName(comspec) \in ClassicCommandShells ->
                Cmd(comspec, <<"/K">>)
         [] FileName(comspec) \in PowerShellFamily ->
                Cmd(comspec, <<"-NoExit">>)
         [] OTHER -> Cmd(comspec, <<>>)

\* C14: detect_user_shell_and_args returns a command for every platform and
\* every set or unset SHELL and ComSpec, and it is the one of the policy
\* table: every child was spawned with the command the table gives for the
\* environment it was spawned in.
C14_ShellFollowsPolicyTable ==
    \A p \in Spawned : procs[p].cmd = PolicyTable(procs[p].env)

\* ------------------------------------------------------------ C15
\* C15: every close_shell on a registered session returns: an invocation
\* that removed the entry and goes for the child's mutex to kill gets it and
\* finishes, whatever the pump and the other invocations do.
C15_CloseReturns ==
    \A c \in Calls :
        InFlight(c, "close", "kill") ~> (calls[c].pc = "finished")

\* ------------------------------------------------------------ C16
\* The step is a kill() on the child p.
KillsChild(p) == procs'[p].killReq /\ ~procs[p].killReq

\* The step is the return of the pump's wait() on the child p.
WaitReturns(p) == Positions(p, "shell-exit")' # Positions(p, "shell-exit")

\* C16: the pump's wait and close_shell's kill never hold the child handle
\* together: no kill() happens while the pump is inside wait(); the pump
\* waits once: wait() returns from a pump that was waiting and has emitted
\* no shell-exit, and that pump is done for good; and shell-exit carries the
\* status wait() returned: a code after the child exited, none (or the code
\* of the termination) after it was killed.
C16_WaitAndKillAreSerialized ==
    [][\A p \in Pids :
        /\ KillsChild(p) => ~ChildLocked(p) /\ ~ChildLocked(p)'
        /\ WaitReturns(p) =>
            /\ ChildLocked(p)
            /\ Positions(p, "shell-exit") = {}
            /\ pump'[p] = "done"
            /\ LET e == emitted'[p][Len(emitted'[p])] IN
                /\ e.type = "shell-exit"
                /\ e.data = procs'[p].code
                /\ IF procs[p].st = "exited" THEN e.data # {}
                   ELSE procs[p].killReq /\ e.data \in {{}, {1}}
        /\ pump[p] = "done" => pump'[p] = "done"
      ]_vars

\* close_shell is at kill() while the pump holds the handle of a child that
\* has exited; the wait is about to return.
C16_Witness ==
    \E c \in Calls :
        /\ InFlight(c, "close", "kill")
        /\ ChildLocked(calls[c].pid)
        /\ procs[calls[c].pid].st = "exited"

\* ------------------------------------------------------------ C17
\* The step is the insert() of a start_shell on id.
InsertsEntry(id) ==
    /\ ret'.op = "start" /\ ret'.how = "done" /\ ret'.sid = id
    /\ sessions' = [sessions EXCEPT ![id] = ret'.pid]

\* The step is the remove() of a close_shell on id.
RemovesEntry(id) ==
    /\ Begins("close", id)
    /\ sessions' = [sessions EXCEPT ![id] = NoPid]

\* The step spawns a child for id.
SpawnsFor(id) ==
    \E p \in Pids :
        procs[p].st = "none" /\ procs'[p].st # "none" /\ procs'[p].sid = id

WriteFails(c) ==
    /\ InFlight(c, "send", "write")
    /\ ~Running(calls[c].pid)
    /\ calls'[c] # calls[c]

\* C18: a send_input whose write fails because the child has exited while
\* its session is registered returns normally, emits no event and leaves
\* the registry, the child and the pump as they are.
C18_FailedWriteIsIgnored ==
    [][\A c \in Calls :
        WriteFails(c) =>
            /\ ret'.n = c
            /\ ret'.result = "returned"
            /\ sessions'[calls[c].sid] = calls[c].pid
            /\ UNCHANGED <<sessions, procs, pump, emitted>>
      ]_vars

\* A send_input has returned from a write that failed half way through its
\* text on a registered session whose child has exited.
C18_Witness ==
    /\ ret.op = "send"
    /\ ret.how = "done"
    /\ ret.result = "returned"
    /\ sessions[ret.sid] = ret.pid
    /\ procs[ret.pid].st = "exited"
    /\ ~IsConcat(procs[ret.pid].stdin)

\* ------------------------------------------------------------ C19
\* The session of p was closed (close_shell removed it and issued the kill)
\* and another session is registered under its id.
Superseded(p) ==
    /\ procs[p].killReq
    /\ sessions[procs[p].sid] \notin {NoPid, p}

\* C19: when an id is used again after close_shell, the events of the two
\* sessions are not mixed: once the new session is registered under the id,
\* the pump of the closed session emits no event any more.
C19_NoEventsFromThePreviousSession ==
    [][\A p \in Pids : Superseded(p) => emitted'[p] = emitted[p]]_vars

\* ------------------------------------------------------------ C20
\* The child p sits in a write to its full stderr pipe.
BlockedOnStderr(p) == Running(p) /\ procs[p].blocked

\* C20: the handling of the pipes never blocks a running child for good: a
\* child that writes to its standard error beyond the capacity of the pipe
\* goes on.
C20_StderrDoesNotBlockTheChild ==
    \A p \in Pids : BlockedOnStderr(p) ~> ~BlockedOnStderr(p)
====
